---- MODULE Spec2Model ----
(***************************************************************************)
(* Model of libsmtutil/Z3CHCInterface.cpp: the rule registry (declare      *)
(* variable, add rule), the query state machine, and the extraction of a   *)
(* counterexample graph from a refutation proof (cexGraph).                *)
(*                                                                         *)
(* A proof is a DAG of z3 expressions.  Every expression has an id, may or *)
(* may not be an application, has a declaration kind and an ordered list   *)
(* of arguments.  The solver (external) chooses the verdict and the proof; *)
(* any call into the solver may raise z3::exception.                       *)
(***************************************************************************)
EXTENDS Integers, Sequences, FiniteSets, TLC

\* ------------------------------------------------------------------ bounds

\* Number of proof-step expressions a proof may hold besides its root.
NumNodes == 3
\* Largest number of premises of one proof step.
MaxPremises == 2
\* Number of variable names the caller may declare.
MaxVars == 2
\* Largest number of rules added in one run of the registry.
MaxRules == 2

\* ------------------------------------------------------- expression universe

RootId == 0
NodeIds == 1 .. NumNodes
FalseId == NumNodes + 1
JustId == NumNodes + 2
ConclId(n) == NumNodes + 2 + n
NumeralId(n) == 2 * NumNodes + 2 + n
ProofIds == 0 .. NumNodes
TermIds == (NumNodes + 1) .. (3 * NumNodes + 2)
ExprIds == ProofIds \cup TermIds

Later(n) == (n + 1) .. NumNodes

SeqsUpTo(S, k) == UNION {[1 .. l -> S] : l \in 0 .. k}

Shape(app, kind, args) == [app |-> app, kind |-> kind, args |-> args]

\* The forms a proof step with id n may take: its arguments refer to
\* expressions with larger ids only, so a proof is acyclic.
NodeShapes(n) ==
    {Shape(TRUE, "HYPER", <<JustId>> \o ps \o <<ConclId(n)>>) :
        ps \in SeqsUpTo(Later(n), MaxPremises)}
    \cup {Shape(TRUE, "HYPER", <<m, ConclId(n)>>) : m \in Later(n)}
    \cup {Shape(TRUE, "HYPER", <<JustId, m>>) : m \in Later(n)}
    \cup {Shape(TRUE, "HYPER", <<ConclId(n)>>), Shape(TRUE, "HYPER", <<>>)}
    \cup {Shape(TRUE, "OTHER", <<ConclId(n)>>), Shape(TRUE, "OTHER", <<>>)}
    \cup {Shape(TRUE, "OTHER", <<m, ConclId(n)>>) : m \in Later(n)}
    \cup {Shape(TRUE, "OTHER", <<JustId, m, ConclId(n)>>) : m \in Later(n)}
    \cup {Shape(FALSE, "NONE", <<>>)}

\* The well-formed proof object: its first argument is the step deriving the
\* query, its last argument the fact false.
GoodRoot == Shape(TRUE, "OTHER", <<1, FalseId>>)

\* The other forms of the proof object handed to cexGraph.
OddRoots ==
    ({Shape(TRUE, "OTHER", as) : as \in SeqsUpTo({1, FalseId}, 2)} \ {GoodRoot})
    \cup {Shape(TRUE, "FALSE", <<>>), Shape(FALSE, "NONE", <<>>)}

RECURSIVE ProofsFrom(_)
ProofsFrom(n) ==
    IF n > NumNodes
    THEN {<<>>}
    ELSE {(n :> s) @@ rest : s \in NodeShapes(n), rest \in ProofsFrom(n + 1)}

\* The steps below an odd root: only step 1, which such a root may refer to,
\* varies.
LeafBody == [n \in NodeIds \ {1} |-> Shape(TRUE, "OTHER", <<>>)]

\* The last argument of the proof object, its fact, is an application.
FactIsApp(r, s) == r.args # <<>> /\ r.args[Len(r.args)] = 1 => s.app

\* The steps step 1 refers to, directly or through other steps, at any
\* argument position.
RECURSIVE RefersFrom(_, _, _)
RefersFrom(body, seen, k) ==
    IF k = 0
    THEN seen
    ELSE RefersFrom(body,
                    UNION {{n} \cup ({body[n].args[i] : i \in DOMAIN body[n].args} \cap NodeIds) :
                              n \in seen},
                    k - 1)

\* A proof object consists of the expressions its root refers to: an id
\* that is not referred to stands for no step of the proof and is given the
\* form of a leaf.
Connected(body) ==
    \A n \in NodeIds \ RefersFrom(body, {1}, NumNodes) : body[n] = Shape(TRUE, "OTHER", <<>>)

Proofs ==
    {(RootId :> GoodRoot) @@ body : body \in {b \in ProofsFrom(1) : Connected(b)}}
    \cup UNION {{(RootId :> r) @@ (1 :> s) @@ LeafBody :
                    s \in {t \in NodeShapes(1) : FactIsApp(r, t)}} : r \in OddRoots}

NoProof == [n \in {} |-> 0]

\* ---------------------------------------------------- z3::expr introspection

\* The expression with id e of proof p: proof steps come from p, the terms
\* (false, the rule justification, the derived facts, the numerals) are fixed.
Expr(p, e) ==
    IF e \in DOMAIN p THEN p[e]
    ELSE IF e = FalseId THEN Shape(TRUE, "FALSE", <<>>)
    ELSE IF e = JustId THEN Shape(TRUE, "OTHER", <<>>)
    ELSE IF e \in {ConclId(n) : n \in NodeIds}
         THEN Shape(TRUE, "OTHER", <<NumeralId(e - NumNodes - 2)>>)
    ELSE Shape(TRUE, "OTHER", <<>>)

IsApp(p, e) == Expr(p, e).app
NumArgs(p, e) == Len(Expr(p, e).args)
\* z3::expr::arg(i), i counted from 0.
Arg(p, e, i) == Expr(p, e).args[i + 1]
DeclKind(p, e) == Expr(p, e).kind

Digits == <<"0", "1", "2", "3", "4", "5", "6", "7", "8", "9">>

\* decl().name().str()
DeclName(p, e) ==
    IF DeclKind(p, e) = "HYPER" THEN "hyper-res"
    ELSE IF DeclKind(p, e) = "FALSE" THEN "false"
    ELSE IF e = JustId THEN "asserted"
    ELSE IF e = RootId THEN "mp"
    ELSE IF e \in NodeIds THEN (IF NumArgs(p, e) = 0 THEN <<"P", "Q">>[(e % 2) + 1] ELSE "mp")
    ELSE IF e \in {ConclId(n) : n \in NodeIds} THEN <<"R", "S">>[(e % 2) + 1]
    ELSE Digits[((e - 2 * NumNodes - 2) % 10) + 1]

RECURSIVE Flatten(_)
Flatten(ss) == IF ss = <<>> THEN <<>> ELSE Head(ss) \o Flatten(Tail(ss))

\* z3::expr::to_string(): the s-expression of e, as its sequence of tokens.
RECURSIVE Render(_, _)
Render(p, e) ==
    IF ~IsApp(p, e) THEN <<"var", Digits[(e % 10) + 1]>>
    ELSE IF NumArgs(p, e) = 0 THEN <<DeclName(p, e)>>
    ELSE <<"(", DeclName(p, e)>>
         \o Flatten([i \in 1 .. NumArgs(p, e) |-> Render(p, Arg(p, e, i - 1))])
         \o <<")">>

\* ------------------------------------------------------------------- state

VARIABLES
    constants,   \* declared variables of the formula layer: name -> sort
    rules,       \* rules added to the solver, in order
    regFailed,   \* the last registry call ended in a contract violation
    lastCall,    \* the last registry call: its arguments and the registry it met
    pc,          \* position of the running query
    verdict,     \* what m_solver.query answered in this query
    result,      \* query's local `result`
    cex,         \* query's outer local `cex`
    proof,       \* the proof object returned by get_answer
    proofStack,  \* cexGraph's local stack, top first
    visited,     \* cexGraph's local visited set
    graph,       \* cexGraph's local graph
    pushes,      \* the ids pushed onto proofStack in this run of cexGraph, in order
    pops,        \* the ids popped from proofStack in this run of cexGraph, in order
    ret,         \* what the last finished query handed to its caller
    runs,        \* how often the current proof object has been extracted
    prev,        \* the graph of the first extraction when extracting again
    earlier      \* an earlier query of this instance returned a graph with nodes

regVars == <<constants, rules, regFailed, lastCall>>
queryVars == <<pc, verdict, result, cex, proof, proofStack, visited, graph, pushes, pops,
               ret, runs, prev, earlier>>
vars == <<constants, rules, regFailed, lastCall, pc, verdict, result, cex, proof, proofStack,
          visited, graph, pushes, pops, ret, runs, prev, earlier>>

EmptyGraph == [nodes |-> <<>>, edges |-> <<>>]
NoReturn == [result |-> "NONE", graph |-> EmptyGraph]

\* ------------------------------------------------- fact, name and arguments

\* smtAssert(_node.is_app()) of fact.
FactDefined(p, node) == IsApp(p, node)

Fact(p, node) ==
    IF NumArgs(p, node) = 0 THEN node ELSE Arg(p, node, NumArgs(p, node) - 1)

Name(p, pred) == DeclName(p, pred)

Arguments(p, pred) == [i \in 1 .. NumArgs(p, pred) |-> Render(p, Arg(p, pred, i - 1))]

\* {name(fact(node)), arguments(fact(node))}; defined when neither fact,
\* name nor arguments fails its assertion.
LabelDefined(p, node) == FactDefined(p, node) /\ IsApp(p, Fact(p, node))

\* Mutant: the label is taken from the proof node, not from its fact.
LabelOfNodeItself(p, node) ==
    [name |-> Name(p, node), args |-> Arguments(p, node)]

Label(p, node) ==
    [name |-> Name(p, Fact(p, node)), args |-> Arguments(p, Fact(p, node))]

\* ----------------------------------------------------------------- cexGraph

\* Mutant: a failed assertion is handled like an exception of the solver.
EntryOutcomeAssertCaught(p) ==
    IF ~IsApp(p, RootId) THEN "throw"
    ELSE IF DeclKind(p, Fact(p, RootId)) # "FALSE" THEN "throw"
    ELSE IF NumArgs(p, RootId) = 0 THEN "throw"
    ELSE IF ~LabelDefined(p, Arg(p, RootId, 0)) THEN "throw"
    ELSE "ok"

\* Outcome of the checks and solver calls before the loop:
\* "abort" when an smtAssert fails, "throw" when z3 raises z3::exception
\* (arg(0) of an application without arguments), "ok" otherwise.
EntryOutcome(p) ==
    IF ~IsApp(p, RootId) THEN "abort"
    ELSE IF DeclKind(p, Fact(p, RootId)) # "FALSE" THEN "abort"
    ELSE IF NumArgs(p, RootId) = 0 THEN "throw"
    ELSE IF ~LabelDefined(p, Arg(p, RootId, 0)) THEN "abort"
    ELSE "ok"

\* Mutant: the graph outlives the call, as a member of the interface would.
FreshGraphKeepsOld(old) == old

\* CexGraph graph; a local of cexGraph, empty whatever an earlier call left.
FreshGraph(old) == EmptyGraph

\* Mutant: the proof object, whose fact is false, is recorded as well.
SeedGraphWithProofObject(p, g) ==
    [g EXCEPT !.nodes = (RootId :> Label(p, RootId))
                        @@ (Arg(p, RootId, 0) :> Label(p, Arg(p, RootId, 0))) @@ @]

\* graph.nodes[root.id()] = {name(fact(root)), arguments(fact(root))};
SeedGraph(p, g) ==
    [g EXCEPT !.nodes = (Arg(p, RootId, 0) :> Label(p, Arg(p, RootId, 0))) @@ @]

\* Mutant: the conclusion is taken for a premise.
PremisePositionsWithConclusion(k) == 1 .. (k - 1)

\* The argument positions of a hyper-resolution step that are premises,
\* counted from 0: for (i = 1; i < num_args() - 1; ++i).
PremisePositions(k) == 1 .. (k - 2)

\* Mutant: the premise is pushed whether or not it has been visited.
MarkAndPushAlways(st, child) ==
    [st EXCEPT !.visited = @ \cup {child}, !.stack = <<child>> \o @]

\* if (!visited.count(child.id())) { visited.insert(...); proofStack.push(child); }
MarkAndPush(st, child) ==
    IF child \in st.visited
    THEN st
    ELSE [st EXCEPT !.visited = @ \cup {child}, !.stack = <<child>> \o @]

\* Mutant: the premise is never entered into the node map.
InsertNodeNever(p, st, child) == st

\* if (!graph.nodes.count(child.id())) { nodes[id] = label; edges[id] = {}; }
InsertNode(p, st, child) ==
    IF child \in DOMAIN st.nodes
    THEN st
    ELSE IF ~LabelDefined(p, child)
    THEN [st EXCEPT !.ok = FALSE]
    ELSE [st EXCEPT !.nodes = (child :> Label(p, child)) @@ @,
                    !.edges = (child :> <<>>) @@ @]

\* Mutant: the edge is appended only to an edge list that exists already.
AppendEdgeToExistingOnly(st, node, child) ==
    IF node \in DOMAIN st.edges
    THEN [st EXCEPT !.edges[node] = Append(@, child)]
    ELSE st

\* graph.edges[proofNode.id()].push_back(child.id()); operator[] of the map
\* creates an empty list for a key it does not hold.
AppendEdge(st, node, child) ==
    IF node \in DOMAIN st.edges
    THEN [st EXCEPT !.edges[node] = Append(@, child)]
    ELSE [st EXCEPT !.edges = (node :> <<child>>) @@ @]

\* Mutant: the edge is added only for a premise seen for the first time.
VisitChildEdgeIfNew(p, st, node, child) ==
    LET inserted == InsertNode(p, MarkAndPush(st, child), child)
    IN  IF inserted.ok /\ child \notin st.visited
        THEN AppendEdge(inserted, node, child)
        ELSE inserted

\* One pass of the body of the for loop.
VisitChild(p, st, node, child) ==
    LET inserted == InsertNode(p, MarkAndPush(st, child), child)
    IN  IF inserted.ok THEN AppendEdge(inserted, node, child) ELSE inserted

\* The for loop from position i on; it stops where an assertion fails.
RECURSIVE VisitChildren(_, _, _, _)
VisitChildren(p, st, node, i) ==
    IF i \notin PremisePositions(NumArgs(p, node)) \/ ~st.ok
    THEN st
    ELSE VisitChildren(p, VisitChild(p, st, node, Arg(p, node, i)), node, i + 1)

\* Mutant: every application is taken for a hyper-resolution step.
IsHyperResolveAnyApp(p, node) == IsApp(p, node)

\* if (proofNode.is_app() && proofNode.decl().decl_kind() == Z3_OP_PR_HYPER_RESOLVE)
IsHyperResolve(p, node) == IsApp(p, node) /\ DeclKind(p, node) = "HYPER"

\* Mutant: the proof is taken to be linear, only the first premise is visited.
ExpandFirstPremiseOnly(p, st, node) ==
    IF ~IsHyperResolve(p, node) THEN st
    ELSE IF ~(NumArgs(p, node) > 0) THEN [st EXCEPT !.ok = FALSE]
    ELSE IF 1 \in PremisePositions(NumArgs(p, node))
    THEN VisitChild(p, st, node, Arg(p, node, 1))
    ELSE st

\* The body of the while loop for the popped node, the pop done.
Expand(p, st, node) ==
    IF ~IsHyperResolve(p, node) THEN st
    ELSE IF ~(NumArgs(p, node) > 0) THEN [st EXCEPT !.ok = FALSE]
    ELSE VisitChildren(p, st, node, 1)

\* ---------------------------------------------------------------- registry

VarNames == 1 .. MaxVars
NullSort == "null"
Sorts == {"Int"}
\* Expressions a rule may be made of, each with the variables occurring in it.
RuleExprs == {[id |-> "e0", free |-> {}], [id |-> "e1", free |-> {1}]}

\* toZ3Expr of a rule expression: the translated term (external).
ToZ3Expr(e) == [term |-> e.id, free |-> e.free]

\* for (auto const& var: constants()) variables.push_back(var.second):
\* the declared variables in the order of the map, that is by name.
RECURSIVE VariablesFrom(_, _)
VariablesFrom(cs, n) ==
    IF n > MaxVars THEN <<>>
    ELSE (IF n \in DOMAIN cs THEN <<[name |-> n, sort |-> cs[n]]>> ELSE <<>>)
         \o VariablesFrom(cs, n + 1)

Variables(cs) == VariablesFrom(cs, 1)

\* Mutant: the rule is quantified over the variables occurring in it only.
BoundRuleOverFreeOnly(cs, rule, name) ==
    LET occurring == [n \in DOMAIN cs \cap rule.free |-> cs[n]]
    IN  IF DOMAIN occurring = {}
        THEN [name |-> name, quantified |-> FALSE, bound |-> <<>>, body |-> rule]
        ELSE [name |-> name, quantified |-> TRUE, bound |-> Variables(occurring),
              body |-> rule]

\* The rule handed to m_solver.add_rule.
BoundRule(cs, rule, name) ==
    IF DOMAIN cs = {}
    THEN [name |-> name, quantified |-> FALSE, bound |-> <<>>, body |-> rule]
    ELSE [name |-> name, quantified |-> TRUE, bound |-> Variables(cs), body |-> rule]

\* What is kept of a registry call: the operation and its arguments, the
\* declared variables it met, whether the call before it had failed and the
\* declared variables that call had met.
Call(op, name, sort, declared, afterFailure, before) ==
    [op |-> op, name |-> name, sort |-> sort, declared |-> declared,
     afterFailure |-> afterFailure, before |-> before]

NoCall == Call("none", 0, NullSort, <<>>, FALSE, <<>>)

\* m_z3Interface->declareVariable(_name, _sort): the variable is entered
\* under its name, in place of an earlier one of that name.
Declared(cs, name, sort) == (name :> sort) @@ [n \in DOMAIN cs \ {name} |-> cs[n]]

\* Mutant: the variable is registered before the sort is looked at.
DeclareVariableRegistersFirst(name, sort) ==
    /\ regFailed' = (sort = NullSort)
    /\ constants' = Declared(constants, name, sort)
    /\ lastCall' = Call("declareVariable", name, sort, constants, regFailed, lastCall.declared)
    /\ UNCHANGED <<rules, queryVars>>

DeclareVariable(name, sort) ==
    /\ IF sort = NullSort
       THEN regFailed' = TRUE /\ UNCHANGED constants
       ELSE /\ regFailed' = FALSE
            /\ constants' = Declared(constants, name, sort)
    /\ lastCall' = Call("declareVariable", name, sort, constants, regFailed, lastCall.declared)
    /\ UNCHANGED <<rules, queryVars>>

AddRule(expr, name) ==
    /\ Len(rules) < MaxRules
    /\ rules' = Append(rules, BoundRule(constants, ToZ3Expr(expr), name))
    /\ regFailed' = FALSE
    /\ lastCall' = Call("addRule", name, NullSort, constants, regFailed, lastCall.declared)
    /\ UNCHANGED <<constants, queryVars>>

\* -------------------------------------------------------------------- query

Running == {"translate", "solve", "answer", "enter", "loop"}

\* Mutant: the graph of the last return is used again.
QueryCexReused(last) == last

\* CheckResult result; CexGraph cex; the caller has taken the last return.
QueryCex(last) == EmptyGraph

QueryBegin ==
    /\ pc \in {"idle", "returned", "aborted"}
    /\ pc' = "translate"
    /\ verdict' = "none"
    /\ result' = "NONE"
    /\ cex' = QueryCex(ret.graph)
    /\ proof' = NoProof
    /\ proofStack' = <<>>
    /\ visited' = {}
    /\ graph' = EmptyGraph
    /\ pushes' = <<>>
    /\ pops' = <<>>
    /\ ret' = NoReturn
    /\ runs' = 0
    /\ prev' = EmptyGraph
    /\ earlier' = (earlier \/ ret.graph # EmptyGraph)
    /\ UNCHANGED regVars

\* z3::expr z3Expr = m_z3Interface->toZ3Expr(_expr);
Translate ==
    /\ pc = "translate"
    /\ pc' = "solve"
    /\ UNCHANGED <<regVars, verdict, result, cex, proof, proofStack, visited, graph,
                   pushes, pops, ret, runs, prev, earlier>>

\* The value query returns at line 119.
Returned(res, g) == [result |-> res, graph |-> g]

\* Mutant: the indeterminate verdict is reported as a proof of absence.
ResultOfUnknownAsUnsat(v) ==
    IF v = "sat" THEN "SATISFIABLE" ELSE "UNSATISFIABLE"

\* switch (m_solver.query(z3Expr)): the result each verdict is given.
ResultOf(v) ==
    CASE v = "sat" -> "SATISFIABLE"
      [] v = "unsat" -> "UNSATISFIABLE"
      [] v = "unknown" -> "UNKNOWN"

\* case sat: result = SATISFIABLE
SolveSat ==
    /\ pc = "solve"
    /\ verdict' = "sat"
    /\ result' = ResultOf("sat")
    /\ pc' = "answer"
    /\ UNCHANGED <<regVars, cex, proof, proofStack, visited, graph, pushes, pops, ret, runs,
                   prev, earlier>>

\* case unsat: result = UNSATISFIABLE; break; return {result, cex};
SolveUnsat ==
    /\ pc = "solve"
    /\ verdict' = "unsat"
    /\ result' = ResultOf("unsat")
    /\ ret' = Returned(result', cex)
    /\ pc' = "returned"
    /\ UNCHANGED <<regVars, cex, proof, proofStack, visited, graph, pushes, pops, runs, prev,
                   earlier>>

\* case unknown: result = UNKNOWN; break; return {result, cex};
SolveUnknown ==
    /\ pc = "solve"
    /\ verdict' = "unknown"
    /\ result' = ResultOf("unknown")
    /\ ret' = Returned(result', cex)
    /\ pc' = "returned"
    /\ UNCHANGED <<regVars, cex, proof, proofStack, visited, graph, pushes, pops, runs, prev,
                   earlier>>

\* auto proof = m_solver.get_answer();
GetAnswer ==
    /\ pc = "answer"
    /\ \E p \in Proofs : proof' = p
    /\ runs' = 1
    /\ pc' = "enter"
    /\ UNCHANGED <<regVars, verdict, result, cex, proofStack, visited, graph, pushes, pops, ret,
                   prev, earlier>>

\* Mutant: what cexGraph had built when the exception was raised is kept.
CaughtGraphKeepsPartial(partial) == partial

\* cex = {}; in the handler: nothing cexGraph has built outlives the exception.
CaughtGraph(partial) == EmptyGraph

\* catch (z3::exception const&) { result = ERROR; cex = {}; } return {result, cex};
Catch ==
    /\ result' = "ERROR"
    /\ cex' = CaughtGraph(graph)
    /\ ret' = Returned("ERROR", cex')
    /\ pc' = "returned"

\* Mutant: the proof object itself is pushed, not its first child.
SeedStackWithProofObject(p) == <<RootId>>

\* stack<z3::expr> proofStack; proofStack.push(_proof.arg(0));
SeedStack(p) == <<Arg(p, RootId, 0)>>

\* Mutant: the root is not marked as visited.
SeedVisitedEmpty(p) == {}

\* set<unsigned> visited; visited.insert(root.id());
SeedVisited(p) == {Arg(p, RootId, 0)}

\* cexGraph up to the loop: the assertions on the proof object, the seed.
CexGraphEnter ==
    /\ pc = "enter"
    /\ pops' = <<>>
    /\ IF EntryOutcome(proof) = "abort"
       THEN /\ pc' = "aborted"
            /\ graph' = FreshGraph(graph)
            /\ pushes' = <<>>
            /\ UNCHANGED <<result, cex, proofStack, visited, ret>>
       ELSE IF EntryOutcome(proof) = "throw"
       THEN /\ Catch
            /\ graph' = FreshGraph(graph)
            /\ pushes' = <<>>
            /\ UNCHANGED <<proofStack, visited>>
       ELSE /\ pc' = "loop"
            /\ graph' = SeedGraph(proof, FreshGraph(graph))
            /\ proofStack' = SeedStack(proof)
            /\ pushes' = SeedStack(proof)
            /\ visited' = SeedVisited(proof)
            /\ UNCHANGED <<result, cex, ret>>
    /\ UNCHANGED <<regVars, verdict, proof, runs, prev, earlier>>

\* Mutant: the loop stops with one node left on the stack.
LoopGoesOnButLast(stack) == Len(stack) > 1

\* while (!proofStack.empty())
LoopGoesOn(stack) == stack # <<>>

LoopState == [stack |-> Tail(proofStack), visited |-> visited,
              nodes |-> graph.nodes, edges |-> graph.edges, ok |-> TRUE]

\* The ids the for loop pushed on top of the stack `below`, in push order.
Pushed(stack, below) ==
    [i \in 1 .. (Len(stack) - Len(below)) |-> stack[Len(stack) - Len(below) + 1 - i]]

\* One iteration of while (!proofStack.empty()).
LoopStep ==
    /\ pc = "loop"
    /\ LoopGoesOn(proofStack)
    /\ IF Head(proofStack) \notin DOMAIN graph.nodes
       THEN /\ pc' = "aborted"
            /\ UNCHANGED <<proofStack, visited, graph, pushes, pops>>
       ELSE \E st \in {Expand(proof, LoopState, Head(proofStack))} :
                /\ proofStack' = st.stack
                /\ visited' = st.visited
                /\ graph' = [nodes |-> st.nodes, edges |-> st.edges]
                /\ pops' = Append(pops, Head(proofStack))
                /\ pushes' = pushes \o Pushed(st.stack, Tail(proofStack))
                /\ pc' = IF st.ok THEN "loop" ELSE "aborted"
    /\ UNCHANGED <<regVars, verdict, result, cex, proof, ret, runs, prev, earlier>>

\* The loop ends; return graph; and in query: return {result, cex};
LoopExit ==
    /\ pc = "loop"
    /\ ~LoopGoesOn(proofStack)
    /\ ret' = Returned(result, graph)
    /\ pc' = "returned"
    /\ UNCHANGED <<regVars, verdict, result, cex, proof, proofStack, visited, graph,
                   pushes, pops, runs, prev, earlier>>

\* A call into the solver raises z3::exception inside the try block.  Before
\* the loop the assertions on the proof object come first: a proof object
\* that fails them never gets as far as a call that raises.
EngineException ==
    /\ pc \in Running
    /\ pc = "enter" => EntryOutcome(proof) = "ok"
    /\ Catch
    /\ UNCHANGED <<regVars, verdict, proof, proofStack, visited, graph, pushes, pops, runs,
                   prev, earlier>>

\* cexGraph is run once more on the proof object of the finished query.
ReExtract ==
    /\ pc = "returned"
    /\ ret.result = "SATISFIABLE"
    /\ runs = 1
    /\ runs' = 2
    /\ prev' = ret.graph
    /\ pc' = "enter"
    /\ UNCHANGED <<regVars, verdict, result, cex, proof, proofStack, visited, graph,
                   pushes, pops, ret, earlier>>

\* ------------------------------------------------------------ specifications

RuleNames == {"r1", "r2"}

Init ==
    /\ constants = <<>>
    /\ rules = <<>>
    /\ regFailed = FALSE
    /\ lastCall = NoCall
    /\ pc = "idle"
    /\ verdict = "none"
    /\ result = "NONE"
    /\ cex = EmptyGraph
    /\ proof = NoProof
    /\ proofStack = <<>>
    /\ visited = {}
    /\ graph = EmptyGraph
    /\ pushes = <<>>
    /\ pops = <<>>
    /\ ret = NoReturn
    /\ runs = 0
    /\ prev = EmptyGraph
    /\ earlier = FALSE

QueryStep ==
    \/ Translate
    \/ SolveSat
    \/ SolveUnsat
    \/ SolveUnknown
    \/ GetAnswer
    \/ CexGraphEnter
    \/ LoopStep
    \/ LoopExit

Next ==
    \/ QueryBegin
    \/ QueryStep
    \/ EngineException
    \/ ReExtract

Spec == Init /\ [][Next]_vars

NextRegistry ==
    \/ \E n \in VarNames, s \in Sorts \cup {NullSort} : DeclareVariable(n, s)
    \/ \E e \in RuleExprs, n \in RuleNames : AddRule(e, n)

SpecRegistry == Init /\ [][NextRegistry]_vars

\* ------------------------------------------------------------------ claims

Range(s) == {s[i] : i \in DOMAIN s}
Count(s, x) == Cardinality({i \in DOMAIN s : s[i] = x})

\* The edge list of n in g; a node without an entry has no edge.
EdgeList(g, n) == IF n \in DOMAIN g.edges THEN g.edges[n] ELSE <<>>

\* The arguments of n at positions 1 .. k-2 (counted from 0), in order.
PremiseSeq(p, n) ==
    IF IsApp(p, n) /\ DeclKind(p, n) = "HYPER"
    THEN SubSeq(Expr(p, n).args, 2, NumArgs(p, n) - 1)
    ELSE <<>>

\* The edges of g that end in m, each as <<source, index in the edge list>>.
EdgesInto(g, m) ==
    UNION {{<<n, i>> : i \in {j \in DOMAIN g.edges[n] : g.edges[n][j] = m}} :
              n \in DOMAIN g.edges}

NoDangling(g) == \A n \in DOMAIN g.edges : Range(g.edges[n]) \subseteq DOMAIN g.nodes

ReturnedGraph == pc = "returned" /\ ret.result = "SATISFIABLE"

\* C1: no dangling edges.  After every iteration of the traversal loop, and
\* in the graph cexGraph returns, every id in an edge list is a key of the
\* node map.
C1_NoDanglingEdges ==
    /\ pc = "loop" => NoDangling(graph)
    /\ ReturnedGraph => NoDangling(ret.graph)

\* C1 witness: a graph with edges has been returned.
C1_Witness ==
    /\ ReturnedGraph
    /\ \E n \in DOMAIN ret.graph.edges : Len(ret.graph.edges[n]) >= 2

C4_EdgesArePremisesInOrder ==
    /\ pc = "loop" =>
           \A n \in DOMAIN graph.nodes \ Range(proofStack) :
               IsHyperResolve(proof, n) =>
                   EdgeList(graph, n) = SubSeq(Expr(proof, n).args, 2, NumArgs(proof, n) - 1)
    /\ ReturnedGraph =>
           \A n \in DOMAIN ret.graph.nodes :
               IsHyperResolve(proof, n) =>
                   EdgeList(ret.graph, n) = SubSeq(Expr(proof, n).args, 2, NumArgs(proof, n) - 1)

\* C4 witness: a returned node with two premises, the larger id first.
C4_Witness ==
    /\ ReturnedGraph
    /\ \E n \in DOMAIN ret.graph.edges :
           /\ NumArgs(proof, n) = 4
           /\ Len(ret.graph.edges[n]) = 2
           /\ ret.graph.edges[n][1] > ret.graph.edges[n][2]

\* The assertions that can fail while node is expanded: a hyper-resolution
\* step without arguments, a premise or the fact of a premise that is no
\* application.
ExpansionFails(p, node) ==
    /\ IsApp(p, node) /\ DeclKind(p, node) = "HYPER"
    /\ \/ NumArgs(p, node) = 0
       \/ \E c \in Range(PremiseSeq(p, node)) :
              ~IsApp(p, c) \/ ~IsApp(p, Fact(p, c))

\* What is left to do in the loop: two for every expression not yet
\* visited, one for every node on the stack.
Measure == 2 * Cardinality(ExprIds \ visited) + Len(proofStack)

\* C2 as claimed: the loop is left only with the stack empty and the graph
\* returned.
C2_AlwaysReturnsGraph ==
    [][(pc = "loop" /\ pc' # "loop") =>
          (pc' = "returned" /\ ret'.result = "SATISFIABLE" /\ proofStack' = <<>>)]_vars

\* C2, amended: the loop is always left after finitely many iterations (in
\* the loop a step is always possible, and every iteration that stays in the
\* loop lowers Measure, which is never negative); it is left with the
\* stack empty and the graph returned, unless the solver raises an exception
\* (the query returns ERROR) or an assertion fails on a premise (the
\* extraction is aborted).
C2_LoopTerminates ==
    /\ [](pc = "loop" => Measure >= 0 /\ ENABLED <<LoopStep \/ LoopExit>>_vars)
    /\ [][(pc = "loop" /\ pc' = "loop") => Measure' < Measure]_vars
    /\ [][(pc = "loop" /\ pc' # "loop") =>
             \/ pc' = "returned" /\ ret'.result = "SATISFIABLE" /\ proofStack' = <<>>
             \/ pc' = "returned" /\ ret'.result = "ERROR"
             \/ pc' = "aborted" /\ ExpansionFails(proof, Head(proofStack))]_vars
    /\ [](ReturnedGraph => proofStack = <<>> /\ ret.graph = graph)

\* C2 witness: the loop has run over a proof of several nodes and returned.
C2_Witness ==
    /\ ReturnedGraph
    /\ proofStack = <<>>
    /\ Cardinality(DOMAIN ret.graph.nodes) = NumNodes

\* C5 as claimed: the extractor runs only on the verdict sat, the result is
\* SATISFIABLE exactly when the solver reports sat, and the verdicts unsat
\* and unknown give UNSATISFIABLE and UNKNOWN with an empty graph.
C5_SatisfiableExactlyWhenSat ==
    /\ pc \in {"enter", "loop"} => verdict = "sat"
    /\ pc = "returned" =>
           /\ ret.result = "SATISFIABLE" <=> verdict = "sat"
           /\ verdict = "unsat" => ret = Returned("UNSATISFIABLE", EmptyGraph)
           /\ verdict = "unknown" => ret = Returned("UNKNOWN", EmptyGraph)

\* C5, amended: the extractor runs only on the verdict sat; the result is
\* SATISFIABLE only when the solver reports sat, and on the verdict sat it is
\* SATISFIABLE unless an exception of the solver turns it into ERROR (or an
\* assertion aborts the query); the verdicts unsat and unknown give
\* UNSATISFIABLE and UNKNOWN with an empty graph.
C5_VerdictDecidesResult ==
    /\ pc \in {"enter", "loop", "aborted"} => verdict = "sat"
    /\ pc = "returned" =>
           /\ ret.result = "SATISFIABLE" => verdict = "sat"
           /\ verdict = "sat" => ret.result \in {"SATISFIABLE", "ERROR"}
           /\ verdict = "unsat" => ret = Returned("UNSATISFIABLE", EmptyGraph)
           /\ verdict = "unknown" => ret = Returned("UNKNOWN", EmptyGraph)
           /\ ret.result \in {"UNSATISFIABLE", "UNKNOWN"} => verdict \in {"unsat", "unknown"}

\* C5 witness: each of the three verdicts has been answered; here unknown,
\* after an earlier query returned a graph.
C5_Witness ==
    /\ pc = "returned"
    /\ verdict = "unknown"
    /\ ret = Returned("UNKNOWN", EmptyGraph)
    /\ earlier

\* C6: an exception of the solver anywhere inside query gives ERROR with an
\* empty graph; nothing built before the exception is returned.
C6_ErrorHasEmptyGraph ==
    /\ [](result = "ERROR" => pc = "returned" /\ ret = Returned("ERROR", EmptyGraph))
    /\ [][(pc \in Running /\ result' = "ERROR") =>
             (pc' = "returned" /\ ret' = Returned("ERROR", EmptyGraph))]_vars

\* C6 witness: the exception came when cexGraph had built nodes and edges.
C6_Witness ==
    /\ pc = "returned"
    /\ ret = Returned("ERROR", EmptyGraph)
    /\ Cardinality(DOMAIN graph.nodes) >= 2
    /\ graph.edges # <<>>

\* The proof object fails one of the two assertions cexGraph begins with.
RootViolation(p) ==
    \/ ~IsApp(p, RootId)
    \/ DeclKind(p, Fact(p, RootId)) # "FALSE"

BoundNames(r) == {r.bound[i].name : i \in DOMAIN r.bound}

\* C8: addRule quantifies over exactly the variables declared when it is
\* called (none declared: the rule is added unquantified), whether or not
\* they occur in the rule, and no later call changes a rule already added.
C8_RuleQuantifiedOverDeclared ==
    [][/\ Len(rules') >= Len(rules)
       /\ SubSeq(rules', 1, Len(rules)) = rules
       /\ Len(rules') > Len(rules) =>
              LET r == rules'[Len(rules')]
              IN  /\ DOMAIN constants = {} => ~r.quantified /\ r.bound = <<>>
                  /\ DOMAIN constants # {} =>
                         /\ r.quantified
                         /\ BoundNames(r) = DOMAIN constants
                         /\ Len(r.bound) = Cardinality(DOMAIN constants)]_vars

\* C8 witness: a rule quantified over a variable that does not occur in it,
\* added before another variable was declared.
C8_Witness ==
    /\ Len(rules) >= 1
    /\ rules[1].quantified
    /\ BoundNames(rules[1]) \ rules[1].body.free # {}
    /\ DOMAIN constants \ BoundNames(rules[1]) # {}

\* g holds only nodes and edges of proof p: every key is the step the
\* extraction starts from or a premise of a key, labelled from p, and every
\* edge list is the premise list of its node in p.
OwnGraph(p, g) ==
    /\ \A n \in DOMAIN g.nodes :
           /\ n = Arg(p, RootId, 0)
              \/ \E a \in DOMAIN g.nodes : n \in Range(PremiseSeq(p, a))
           /\ g.nodes[n] = Label(p, n)
    /\ \A n \in DOMAIN g.edges :
           n \in DOMAIN g.nodes /\ g.edges[n] = PremiseSeq(p, n)

\* C9: every query returns a graph of its own: on SATISFIABLE it holds only
\* nodes and edges of the proof of this query, on every other result it is
\* empty, whatever earlier queries returned.
C9_FreshGraphPerQuery ==
    pc = "returned" =>
        /\ ret.result # "SATISFIABLE" => ret.graph = EmptyGraph
        /\ ret.result = "SATISFIABLE" => OwnGraph(proof, ret.graph)

\* C9 witness: a query returned UNSATISFIABLE after an earlier query of the
\* instance had returned a graph with nodes.
C9_Witness ==
    /\ pc = "returned"
    /\ earlier
    /\ ret = Returned("UNSATISFIABLE", EmptyGraph)

C11_AbsentSortRegistersNothing ==
    /\ (lastCall.op = "declareVariable" /\ lastCall.sort = NullSort) =>
           regFailed /\ constants = lastCall.declared
    /\ (lastCall.op = "declareVariable" /\ lastCall.sort # NullSort) =>
           /\ ~regFailed
           /\ DOMAIN constants = DOMAIN lastCall.declared \cup {lastCall.name}
           /\ constants[lastCall.name] = lastCall.sort
           /\ \A n \in DOMAIN lastCall.declared \ {lastCall.name} :
                  constants[n] = lastCall.declared[n]
    /\ (lastCall.op = "addRule" /\ lastCall.afterFailure) =>
           LET r == rules[Len(rules)]
           IN  /\ BoundNames(r) = DOMAIN lastCall.before
               /\ r.quantified <=> DOMAIN lastCall.before # {}
               /\ \A i \in DOMAIN r.bound : r.bound[i].sort = lastCall.before[r.bound[i].name]
    /\ \A n \in DOMAIN constants : constants[n] # NullSort

\* C11 witness: a rule was added right after a declareVariable that failed
\* where a variable had been declared, and is quantified over that variable.
C11_Witness ==
    /\ lastCall.op = "addRule"
    /\ lastCall.afterFailure
    /\ DOMAIN lastCall.before # {}
    /\ rules[Len(rules)].quantified
    /\ BoundNames(rules[Len(rules)]) = DOMAIN lastCall.before

\* The step the extraction starts from: the first child of the proof object.
RootChild(p) == Arg(p, RootId, 0)

\* C12: when the step the extraction starts from has no premises (the goal
\* is derived by a fact alone), the returned graph has exactly one node, that
\* step, labelled with the name and the argument strings of its fact, and
\* no edge.
C12_FactAloneGivesOneNode ==
    (ReturnedGraph /\ PremiseSeq(proof, RootChild(proof)) = <<>>) =>
        /\ DOMAIN ret.graph.nodes = {RootChild(proof)}
        /\ ret.graph.nodes[RootChild(proof)] =
               [name |-> DeclName(proof, Fact(proof, RootChild(proof))),
                args |-> Arguments(proof, Fact(proof, RootChild(proof)))]
        /\ \A n \in DOMAIN ret.graph.edges : ret.graph.edges[n] = <<>>

\* C12 witness: the proof object is well formed, its child a hyper-resolution
\* step of a rule without premises, and the one node returned carries the
\* predicate of the derived fact and its one argument.
C12_Witness ==
    /\ ReturnedGraph
    /\ proof[RootId] = GoodRoot
    /\ proof[1] = Shape(TRUE, "HYPER", <<JustId, ConclId(1)>>)
    /\ DOMAIN ret.graph.nodes = {1}
    /\ ret.graph.nodes[1].name = DeclName(proof, ConclId(1))
    /\ Len(ret.graph.nodes[1].args) = 1

\* C13: every node popped from the stack is already a key of the node map:
\* in every state of the loop every node on the stack is in the node map, so
\* the assertion at the top of the loop never fails and no iteration ends
\* the extraction on its account.
C13_PoppedNodeIsInNodeMap ==
    /\ [](pc = "loop" => Range(proofStack) \subseteq DOMAIN graph.nodes)
    /\ [][(pc = "loop" /\ proofStack # <<>> /\ pc' = "aborted") =>
             (Head(proofStack) \in DOMAIN graph.nodes /\ pops' = Append(pops, Head(proofStack)))]_vars
    /\ [](Range(pops) \subseteq DOMAIN graph.nodes)

\* C13 witness: in the loop, two nodes pushed by one parent wait on the
\* stack and a node has been popped.
C13_Witness ==
    /\ pc = "loop"
    /\ Len(proofStack) >= 2
    /\ pops # <<>>

\* C14: every proof node is expanded exactly once: in one run of cexGraph an
\* id is pushed at most once and popped at most once, however many parents
\* refer to it and however often; in the loop every node of the node map has
\* been pushed once and is either on the stack or popped; when the loop has
\* ended every node of the node map has been popped exactly once.
C14_ExpandedExactlyOnce ==
    /\ \A i, j \in DOMAIN pushes : pushes[i] = pushes[j] => i = j
    /\ \A i, j \in DOMAIN pops : pops[i] = pops[j] => i = j
    /\ Range(pops) \subseteq Range(pushes)
    /\ pc = "loop" =>
           \A n \in DOMAIN graph.nodes :
               /\ Count(pushes, n) = 1
               /\ Count(pops, n) + Count(proofStack, n) = 1
    /\ ReturnedGraph =>
           /\ \A n \in DOMAIN ret.graph.nodes : Count(pops, n) = 1
           /\ Range(pops) = DOMAIN ret.graph.nodes

\* C14 witness: the loop has ended on a proof in which one node is a
\* premise of two parents, of one of them twice, and was popped once.
C14_Witness ==
    /\ ReturnedGraph
    /\ \E m \in DOMAIN ret.graph.nodes :
           /\ Cardinality(EdgesInto(ret.graph, m)) = 3
           /\ Cardinality({e[1] : e \in EdgesInto(ret.graph, m)}) = 2
           /\ Count(pops, m) = 1

\* The expressions reached from the set seen in at most k steps along the
\* premise positions of hyper-resolution steps.
RECURSIVE ReachFrom(_, _, _)
ReachFrom(p, seen, k) ==
    IF k = 0
    THEN seen
    ELSE ReachFrom(p, UNION {{n} \cup Range(PremiseSeq(p, n)) : n \in seen}, k - 1)

\* The proof nodes reachable from the first child of the proof object.
Reachable(p) == ReachFrom(p, {RootChild(p)}, NumNodes)

\* C15: the keys of the returned node map are exactly the proof nodes
\* reachable from the first child of the proof object along the premise
\* positions 1 .. k-2 of hyper-resolution steps: no reachable premise is
\* missing; the proof object itself, and an argument at position 0 or k-1 of
\* a step, is a key only if it is reachable as a premise.
C15_NodesAreReachablePremises ==
    ReturnedGraph =>
        /\ DOMAIN ret.graph.nodes = Reachable(proof)
        /\ RootId \notin DOMAIN ret.graph.nodes
        /\ \A n \in DOMAIN ret.graph.nodes : \A i \in {0, NumArgs(proof, n) - 1} :
               (NumArgs(proof, n) > 0 /\ Arg(proof, n, i) \in DOMAIN ret.graph.nodes) =>
                   \/ Arg(proof, n, i) = RootChild(proof)
                   \/ \E a \in DOMAIN ret.graph.nodes :
                          Arg(proof, n, i) \in Range(PremiseSeq(proof, a))

\* C15 witness: a returned graph of two premises below the first child, one
\* of them a step whose argument at position 0 is a proof node that is no
\* key of the node map.
C15_Witness ==
    /\ ReturnedGraph
    /\ Len(PremiseSeq(proof, RootChild(proof))) = 2
    /\ \E n \in DOMAIN ret.graph.nodes :
           /\ IsHyperResolve(proof, n)
           /\ NumArgs(proof, n) = 2
           /\ Arg(proof, n, 0) \in NodeIds \ DOMAIN ret.graph.nodes

\* n is a hyper-resolution application of proof p.
HyperStep(p, n) == IsApp(p, n) /\ DeclKind(p, n) = "HYPER"

\* C16: only hyper-resolution nodes are expanded.  A node of the graph that
\* is no hyper-resolution application (a leaf fact without arguments, or
\* another proof step with arguments) has no outgoing edge, and the iteration
\* that pops it adds nothing to the node map, the visited set or the stack;
\* an argument of it that is in the node map is there as the first child of
\* the proof object or as a premise of a hyper-resolution node.
C16_OnlyHyperResolutionExpanded ==
    /\ [](pc \in {"loop", "returned"} =>
             \A n \in DOMAIN graph.nodes :
                 ~HyperStep(proof, n) =>
                     /\ EdgeList(graph, n) = <<>>
                     /\ \A a \in Range(Expr(proof, n).args) \cap DOMAIN graph.nodes :
                            \/ a = RootChild(proof)
                            \/ \E h \in DOMAIN graph.nodes :
                                   HyperStep(proof, h) /\ a \in Range(PremiseSeq(proof, h)))
    /\ [][(pc = "loop" /\ proofStack # <<>> /\ pops' # pops
              /\ ~HyperStep(proof, Head(proofStack))) =>
             (/\ pc' = "loop"
              /\ graph' = graph
              /\ visited' = visited
              /\ proofStack' = Tail(proofStack))]_vars

\* C16 witness: the returned graph holds, as a premise of a hyper-resolution
\* node, a proof step that is no hyper resolution and has a proof node at a
\* premise position, which is no key of the node map.
C16_Witness ==
    /\ ReturnedGraph
    /\ \E n \in DOMAIN ret.graph.nodes \ {RootChild(proof)} :
           /\ ~HyperStep(proof, n)
           /\ NumArgs(proof, n) = 3
           /\ Arg(proof, n, 1) \in NodeIds \ DOMAIN ret.graph.nodes

\* The fact of n as the specification defines it: n itself when it has no
\* argument, its last argument otherwise.
FactOf(p, n) ==
    IF Len(Expr(p, n).args) = 0 THEN n ELSE Expr(p, n).args[Len(Expr(p, n).args)]

\* The pair (name, argument strings) of predicate f.
PairOf(p, f) ==
    [name |-> DeclName(p, f),
     args |-> [i \in 1 .. Len(Expr(p, f).args) |-> Render(p, Expr(p, f).args[i])]]

\* C17: every entry of the node map is labelled from the fact of its node:
\* the pair stored for n is (name(fact(n)), arguments(fact(n))), fact(n)
\* being n without arguments and the last argument of n otherwise; an entry,
\* once written, is never changed or removed by a later iteration.
C17_LabelledFromFact ==
    /\ [](pc = "loop" =>
             \A n \in DOMAIN graph.nodes : graph.nodes[n] = PairOf(proof, FactOf(proof, n)))
    /\ [](ReturnedGraph =>
             \A n \in DOMAIN ret.graph.nodes :
                 ret.graph.nodes[n] = PairOf(proof, FactOf(proof, n)))
    /\ [][pc = "loop" =>
             \A n \in DOMAIN graph.nodes :
                 n \in DOMAIN graph.nodes' /\ graph.nodes'[n] = graph.nodes[n]]_vars

\* C17 witness: the returned graph holds a leaf without arguments, labelled
\* by itself and referred to by two parents, and a node with arguments,
\* labelled by its last argument with one argument string.
C17_Witness ==
    /\ ReturnedGraph
    /\ \E l \in DOMAIN ret.graph.nodes :
           /\ NumArgs(proof, l) = 0
           /\ ret.graph.nodes[l] = [name |-> DeclName(proof, l), args |-> <<>>]
           /\ Cardinality({e[1] : e \in EdgesInto(ret.graph, l)}) = 2
    /\ \E n \in DOMAIN ret.graph.nodes :
           /\ NumArgs(proof, n) = 4
           /\ ret.graph.nodes[n].name = DeclName(proof, ConclId(n))
           /\ ret.graph.nodes[n].args = <<Render(proof, NumeralId(n))>>

\* C18 as claimed: in the returned graph every key of the node map has an
\* entry in the edge map and every key of the edge map is a key of the node
\* map; in particular the root has an edge-map entry.
C18_EveryNodeHasEdgeEntry ==
    ReturnedGraph =>
        /\ DOMAIN ret.graph.nodes \subseteq DOMAIN ret.graph.edges
        /\ DOMAIN ret.graph.edges \subseteq DOMAIN ret.graph.nodes
        /\ RootChild(proof) \in DOMAIN ret.graph.edges

\* C18, amended: every key of the edge map is a key of the node map, in the
\* loop and in the returned graph; every node entered as a premise has an
\* entry in the edge map (an empty list when it has no premises); the root
\* recorded at the start has an entry in the returned graph exactly when it
\* has a premise.
C18_EdgeEntriesOfPremises ==
    /\ pc = "loop" =>
           /\ DOMAIN graph.edges \subseteq DOMAIN graph.nodes
           /\ DOMAIN graph.nodes \ {RootChild(proof)} \subseteq DOMAIN graph.edges
    /\ ReturnedGraph =>
           /\ DOMAIN ret.graph.edges \subseteq DOMAIN ret.graph.nodes
           /\ DOMAIN ret.graph.nodes \ {RootChild(proof)} \subseteq DOMAIN ret.graph.edges
           /\ RootChild(proof) \in DOMAIN ret.graph.edges
                  <=> PremiseSeq(proof, RootChild(proof)) # <<>>
           /\ \A n \in DOMAIN ret.graph.edges : ret.graph.edges[n] = PremiseSeq(proof, n)

\* C18 witness: the returned graph holds the root with its premises and a
\* premise whose entry in the edge map is the empty list.
C18_Witness ==
    /\ ReturnedGraph
    /\ RootChild(proof) \in DOMAIN ret.graph.edges
    /\ \E n \in DOMAIN ret.graph.nodes \ {RootChild(proof)} :
           n \in DOMAIN ret.graph.edges /\ ret.graph.edges[n] = <<>>

\* The ids pushed by the step from this state to the next.
PushedNow == {pushes'[i] : i \in (Len(pushes) + 1) .. Len(pushes')}

\* C19: at the head of every iteration of the loop the visited set is the
\* key set of the node map, so the two tests made for a premise (not
\* visited, not a key) agree, and an iteration pushes exactly the premises
\* it enters into the node map.
C19_VisitedIsNodeKeys ==
    /\ [](pc = "loop" => visited = DOMAIN graph.nodes)
    /\ [][(pc = "loop" /\ pc' = "loop") =>
             /\ PushedNow = DOMAIN graph.nodes' \ DOMAIN graph.nodes
             /\ PushedNow = visited' \ visited
             /\ Len(pushes') - Len(pushes) = Cardinality(PushedNow)]_vars

\* C19 witness: at the head of an iteration, after an iteration that
\* pushed two premises and another that met a premise already visited.
C19_Witness ==
    /\ pc = "loop"
    /\ proofStack # <<>>
    /\ Len(pops) >= 2
    /\ Cardinality(visited) = NumNodes
    /\ \E m \in visited : Cardinality(EdgesInto(graph, m)) >= 2

====
